---- MODULE Spec2Model ----
(***************************************************************************)
(* A model of src/peteresnyder/items.py: the content items of the page     *)
(* generator, built from a JSON document (list_from_json), validated       *)
(* against the files under a root directory (validate), sorted by date     *)
(* (BaseItem.sort) and rendered into an indented markup buffer (add_html,  *)
(* add_list_html).                                                         *)
(*                                                                         *)
(* Python values.  None is the empty tuple and a present optional value x  *)
(* is <<x>>.  A string whose characters the code inspects (s[0] == "@",    *)
(* "//" in s, ordering by sorted()) is a sequence of one-character         *)
(* strings; a string the code only passes along is a TLA+ string.  A JSON  *)
(* year and an item's date are tagged values (IntV, StrV, DtV), because    *)
(* the code tells an int from a str (isinstance) and Python refuses to     *)
(* order values of different types.                                        *)
(***************************************************************************)
EXTENDS Integers, Sequences, FiniteSets, TLC

VARIABLES
    cls,          \* the item variant whose class methods are called
    data,         \* the parsed JSON document: [abbrs, items]
    now,          \* the year of the system clock (datetime.datetime.now().year)
    root,         \* the files that exist under the root_dir of the last validate
    pc,           \* "load", "built", "failed", "validated", "sorted", "rendered"
    items,        \* the list list_from_json returned
    err,          \* the exception that ended the last operation, or "none"
    errIndex,     \* the position of the record list_from_json failed on, or 0
    valid,        \* what validate returned: "none", "True" or "FileNotFoundError"
    checked,      \* the position in items of the item validate was called on
    sortedItems,  \* the list BaseItem.sort returned
    listArg,      \* the list handed to the last add_list_html / add_html call
    startLevel,   \* the indentation level of the buffer before rendering
    markup,       \* the Indenter: [level, lines]
    calls         \* the up() and down() calls of the last rendering: [ups, downs, low]

vars == <<cls, data, now, root, pc, items, err, errIndex, valid, checked,
          sortedItems, listArg, startLevel, markup, calls>>

-----------------------------------------------------------------------------
(* Bounds of the model.                                                    *)

FirstYear == 2019
NumYears == 2
RefsItems == 2
YearItems == 2
ShapeItems == 2
OrderItems == 3
FilesItems == 1
LinksItems == 1
MaxLinks == 2
MaxLevel == 1

Years == FirstYear .. (FirstYear + NumYears - 1)

-----------------------------------------------------------------------------
(* Values.                                                                 *)

None == <<>>
Some(x) == <<x>>
IsNone(o) == Len(o) = 0

IntV(n) == [kind |-> "int", n |-> n, s |-> <<>>, ymd |-> <<>>]
StrV(s) == [kind |-> "str", n |-> 0, s |-> s, ymd |-> <<>>]
DtV(ymd) == [kind |-> "datetime", n |-> 0, s |-> <<>>, ymd |-> ymd]
NoDate == [kind |-> "none", n |-> 0, s |-> <<>>, ymd |-> <<>>]

Ok(v) == [ok |-> TRUE, val |-> v, err |-> "none"]
Raise(e) == [ok |-> FALSE, val |-> <<>>, err |-> e]

\* The code points of the characters the model's strings are made of.
ord(c) ==
    CASE c = "/" -> 47 [] c = "0" -> 48 [] c = "2" -> 50 [] c = ":" -> 58
      [] c = "@" -> 64 [] c = "A" -> 65 [] c = "B" -> 66 [] c = "C" -> 67
      [] c = "a" -> 97 [] c = "b" -> 98 [] c = "c" -> 99 [] c = "g" -> 103
      [] c = "h" -> 104 [] c = "j" -> 106 [] c = "m" -> 109 [] c = "n" -> 110
      [] c = "o" -> 111 [] c = "p" -> 112 [] c = "s" -> 115 [] c = "t" -> 116
      [] c = "u" -> 117 [] c = "w" -> 119 [] c = "x" -> 120
      [] OTHER -> 0

\* Python's < on two str: lexicographic by code point.
RECURSIVE StrLt(_, _)
StrLt(a, b) ==
    IF Len(b) = 0 THEN FALSE
    ELSE IF Len(a) = 0 THEN TRUE
    ELSE IF ord(a[1]) # ord(b[1]) THEN ord(a[1]) < ord(b[1])
    ELSE StrLt(Tail(a), Tail(b))

\* Python's < on two datetime (here year, month, day).
YmdLt(a, b) ==
    \/ a[1] < b[1]
    \/ a[1] = b[1] /\ a[2] < b[2]
    \/ a[1] = b[1] /\ a[2] = b[2] /\ a[3] < b[3]

\* Python's < on two sort keys of the same type.
KeyLt(a, b) ==
    CASE a.kind = "int" -> a.n < b.n
      [] a.kind = "str" -> StrLt(a.s, b.s)
      [] a.kind = "datetime" -> YmdLt(a.ymd, b.ymd)
      [] OTHER -> FALSE

\* int < str, str < int and the like raise TypeError.
Comparable(a, b) == a.kind = b.kind

-----------------------------------------------------------------------------
(* The value records of .types, as the calls of items.py construct them.   *)

Author(title, abbr) == [title |-> title, abbr |-> abbr]
Venue(title, url, abbr) == [title |-> title, url |-> url, abbr |-> abbr]
Source(title, url, abbr) == [title |-> title, url |-> url, abbr |-> abbr]
TalkType(label, style) == [label |-> label, style |-> style]
Link(title, url) == [title |-> title, url |-> url]
PubNote(text) == [text |-> text]

-----------------------------------------------------------------------------
(* The strings of the documents.                                           *)

AtNow == <<"@", "n", "o", "w">>
Str2020 == <<"2", "0", "2", "0">>      \* the string "2020", not the int

AtMe == <<"@", "m", "e">>
AtJo == <<"@", "j", "o">>
AtGhost == <<"@", "g", "h">>           \* in no abbrs table
Jane == <<"j", "a", "n">>              \* a literal author

AtUsenix == <<"@", "u", "s">>
Www == <<"w", "w", "w">>               \* a literal venue

AtBlog == <<"@", "b", "g">>
Cnn == <<"c", "n", "n">>               \* a literal source

AtConf == <<"@", "c", "o">>
Tutorial == <<"t", "u", "t">>          \* a literal talk type

AtPc == <<"@", "p", "c">>
AtChair == <<"@", "c", "h">>

LocalA == <<"p", "/", "a">>            \* p/a
LocalB == <<"s", "/", "b">>            \* s/b
Remote == <<"h", ":", "/", "/", "x">>  \* h://x
Empty == <<>>                          \* ""

LinkTitles == {<<"A">>, <<"A", "B">>, <<"B">>, <<"C">>}

\* data["abbrs"]
Abbrs ==
    [authors |-> [k \in {AtMe, AtJo} |-> IF k = AtMe THEN <<"m", "e">> ELSE <<"j", "o">>],
     sources |-> [k \in {AtBlog} |-> [title |-> <<"b", "g">>, url |-> Remote]],
     venues |-> [k \in {AtUsenix} |-> [title |-> <<"u", "s">>, url |-> Some(Remote)]],
     types |-> [k \in {AtConf} |-> [label |-> <<"c", "o">>, style |-> Some("info")]],
     positions |-> [k \in {AtPc, AtChair} |-> IF k = AtPc THEN "PC member" ELSE "Chair"]]

-----------------------------------------------------------------------------
(* JSON item records.  Every key is optional in JSON: an absent key is     *)
(* None here and item_data[key] raises KeyError on it.                     *)

Rec(title, year, date, authors, venue, source, type, position, links, notes, url, desc) ==
    [title |-> title, year |-> year, date |-> date, authors |-> authors,
     venue |-> venue, source |-> source, type |-> type, position |-> position,
     links |-> links, notes |-> notes, url |-> url, desc |-> desc]

\* item_data[key]
Get(field) == IF IsNone(field) THEN Raise("KeyError") ELSE Ok(field[1])

\* The first exception among the results of statements run in order.
RECURSIVE FirstRaise(_)
FirstRaise(rs) ==
    IF Len(rs) = 0 THEN Ok(None)
    ELSE IF ~ rs[1].ok THEN rs[1]
    ELSE FirstRaise(Tail(rs))

-----------------------------------------------------------------------------
(* The *_from_json functions.                                              *)

author_from_json(author, all_data) ==
    IF Len(author) = 0 THEN Raise("IndexError")
    ELSE IF author[1] = "@"
    THEN IF author \in DOMAIN all_data.abbrs.authors
         THEN Ok(Author(all_data.abbrs.authors[author], Some(author)))
         ELSE Raise("KeyError")
    ELSE Ok(Author(author, None))

authors_from_json(item_data, all_data) ==
    IF IsNone(item_data.authors) THEN Ok(<<>>)
    ELSE LET authors_data == item_data.authors[1]
             rs == [i \in 1 .. Len(authors_data) |->
                       author_from_json(authors_data[i], all_data)]
         IN  IF \E i \in 1 .. Len(rs) : ~ rs[i].ok
             THEN FirstRaise(rs)
             ELSE Ok([i \in 1 .. Len(rs) |-> rs[i].val])

source_from_json(item_data, all_data) ==
    IF IsNone(item_data.source) THEN Raise("KeyError")
    ELSE LET source_abbr == item_data.source[1]
         IN  IF source_abbr \in DOMAIN all_data.abbrs.sources
             THEN LET source_data == all_data.abbrs.sources[source_abbr]
                  IN  Ok(Source(source_data.title, Some(source_data.url),
                                Some(source_abbr)))
             ELSE Raise("KeyError")

year_from_json(item_data, clock) ==
    IF item_data.kind = "str"
    THEN IF item_data.s # AtNow
         THEN Raise("BaseException")
         ELSE Ok(IntV(clock))
    ELSE Ok(item_data)

talk_type_from_json(item_data, all_data) ==
    IF IsNone(item_data.type) THEN Raise("KeyError")
    ELSE LET raw_talk_type == item_data.type[1]
         IN  IF Len(raw_talk_type) = 0 THEN Raise("IndexError")
             ELSE IF raw_talk_type[1] = "@"
             THEN IF raw_talk_type \in DOMAIN all_data.abbrs.types
                  THEN LET e == all_data.abbrs.types[raw_talk_type]
                       IN  Ok(TalkType(e.label, e.style))
                  ELSE Raise("KeyError")
             ELSE Ok(TalkType(raw_talk_type, None))

\* venue_from_json with the literal branch lost: every venue is looked up,
\* as source_from_json does.
venue_from_json_lookup(item_data, all_data) ==
    IF IsNone(item_data.venue) THEN Raise("KeyError")
    ELSE LET raw_venue == item_data.venue[1]
         IN  IF raw_venue \in DOMAIN all_data.abbrs.venues
             THEN LET e == all_data.abbrs.venues[raw_venue]
                  IN  Ok(Venue(e.title, e.url, None))
             ELSE Raise("KeyError")

venue_from_json(item_data, all_data) ==
    IF IsNone(item_data.venue) THEN Raise("KeyError")
    ELSE LET raw_venue == item_data.venue[1]
         IN  IF Len(raw_venue) = 0 THEN Raise("IndexError")
             ELSE IF raw_venue[1] = "@"
             THEN IF raw_venue \in DOMAIN all_data.abbrs.venues
                  THEN LET e == all_data.abbrs.venues[raw_venue]
                       IN  Ok(Venue(e.title, e.url, None))
                  ELSE Raise("KeyError")
             ELSE Ok(Venue(raw_venue, None, None))

\* datetime.datetime.fromisoformat on the date strings of the documents.
fromisoformat(date_str) ==
    CASE date_str = "2020-03-01" -> Ok(DtV(<<2020, 3, 1>>))
      [] date_str = "2020-03-15" -> Ok(DtV(<<2020, 3, 15>>))
      [] date_str = "2021-01-02" -> Ok(DtV(<<2021, 1, 2>>))
      [] OTHER -> Raise("ValueError")

date_from_json(item_data) ==
    IF IsNone(item_data.date) THEN Raise("KeyError")
    ELSE fromisoformat(item_data.date[1])

pub_notes_from_json(item_data) ==
    IF IsNone(item_data.notes) THEN <<>>
    ELSE [i \in 1 .. Len(item_data.notes[1]) |-> PubNote(item_data.notes[1][i])]

-----------------------------------------------------------------------------
(* sorted(list, key=..., reverse=...): a stable sort.  It is computed on   *)
(* the keys and returns the positions of the input in output order.        *)

\* The position at which a stable insertion puts key k into the sorted perm.
RECURSIVE InsertAt(_, _, _, _)
InsertAt(perm, keys, k, reverse) ==
    IF Len(perm) = 0 THEN 1
    ELSE LET h == keys[perm[1]]
             before == IF reverse THEN KeyLt(h, k) ELSE KeyLt(k, h)
         IN  IF before THEN 1
             ELSE 1 + InsertAt(Tail(perm), keys, k, reverse)

RECURSIVE SortPerm(_, _, _)
SortPerm(keys, n, reverse) ==
    IF n = 0 THEN <<>>
    ELSE LET perm == SortPerm(keys, n - 1, reverse)
             at == InsertAt(perm, keys, keys[n], reverse)
         IN  SubSeq(perm, 1, at - 1) \o <<n>> \o SubSeq(perm, at, Len(perm))

sorted(list, keys, reverse) ==
    IF \E i, j \in 1 .. Len(list) : ~ Comparable(keys[i], keys[j])
    THEN Raise("TypeError")
    ELSE LET perm == SortPerm(keys, Len(list), reverse)
         IN  Ok([i \in 1 .. Len(list) |-> list[perm[i]]])

\* links_from_json without the sorted(): the links in the mapping's order.
links_from_json_unsorted(item_data) ==
    IF IsNone(item_data.links) THEN <<>>
    ELSE [i \in 1 .. Len(item_data.links[1]) |->
             Link(item_data.links[1][i].title, item_data.links[1][i].url)]

links_from_json(item_data) ==
    IF IsNone(item_data.links) THEN <<>>
    ELSE LET links_data == item_data.links[1]
             links == [i \in 1 .. Len(links_data) |->
                          Link(links_data[i].title, links_data[i].url)]
         IN  sorted(links, [i \in 1 .. Len(links) |-> StrV(links[i].title)], FALSE).val

-----------------------------------------------------------------------------
(* The items.  An attribute a variant does not have is left at its default. *)

Item(class, date, title, url) ==
    [cls |-> class, date |-> date, title |-> title, url |-> url,
     authors |-> <<>>, links |-> <<>>, notes |-> <<>>, venue |-> None,
     source |-> None, desc |-> None, type |-> "", talktype |-> None,
     position |-> ""]

ITEM_TYPE_CLASSES ==
    [t \in {"news", "podcast", "radio", "video"} |->
        CASE t = "news" -> "success" [] t = "podcast" -> "primary"
          [] t = "radio" -> "warning" [] OTHER -> "info"]

BlogItem(date, title, url, source, authors, desc) ==
    Ok([Item("Blog", date, title, Some(url)) EXCEPT
           !.authors = authors, !.source = Some(source), !.desc = desc])

PublicationItem(year, title, url, authors, links, venue, notes) ==
    Ok([Item("Publication", year, title, url) EXCEPT
           !.authors = authors, !.links = links, !.venue = Some(venue),
           !.notes = notes])

InvolvementItem(venue, position, date) ==
    Ok([Item("Involvement", date, "", None) EXCEPT
           !.venue = Some(venue), !.position = position])

\* PressItem.__init__ without the check of item_type.
PressItem_unchecked(date, title, url, source, item_type) ==
    Ok([Item("Press", date, title, Some(url)) EXCEPT
           !.source = Some(source), !.type = item_type])

PressItem(date, title, url, source, item_type) ==
    IF item_type \notin DOMAIN ITEM_TYPE_CLASSES
    THEN Raise("ValueError")
    ELSE Ok([Item("Press", date, title, Some(url)) EXCEPT
                !.source = Some(source), !.type = item_type])

TalksItem(year, title, item_type, url, links, venue, authors) ==
    Ok([Item("Talks", year, title, url) EXCEPT
           !.links = links, !.venue = Some(venue),
           !.talktype = Some(item_type), !.authors = authors])

WritingItem(year, title, url, links, venue, desc, authors) ==
    Ok([Item("Writing", year, title, url) EXCEPT
           !.links = links, !.venue = venue, !.desc = Some(desc),
           !.authors = authors])

CodeItem(year, title, url, links, desc) ==
    Ok([Item("Code", year, title, url) EXCEPT
           !.links = links, !.desc = Some(desc)])

-----------------------------------------------------------------------------
(* item_from_json of each variant: the statements in the order the code    *)
(* runs them, ended by the first exception.                                *)

\* year_from_json(item_data["year"])
year_of(item_data, clock) ==
    IF IsNone(item_data.year) THEN Raise("KeyError")
    ELSE year_from_json(item_data.year[1], clock)

\* item_data["url"] if "url" in item_data else None
url_of(item_data) == item_data.url

BlogItem_item_from_json(item_data, all_data, clock) ==
    LET date == date_from_json(item_data)
        authors == authors_from_json(item_data, all_data)
        source == source_from_json(item_data, all_data)
        desc == item_data.desc
        title == Get(item_data.title)
        url == Get(item_data.url)
        raised == FirstRaise(<<date, authors, source, title, url>>)
    IN  IF ~ raised.ok THEN raised
        ELSE BlogItem(date.val, title.val, url.val, source.val, authors.val, desc)

PublicationItem_item_from_json(item_data, all_data, clock) ==
    LET year == year_of(item_data, clock)
        authors == authors_from_json(item_data, all_data)
        links == links_from_json(item_data)
        venue == venue_from_json(item_data, all_data)
        url == url_of(item_data)
        notes == pub_notes_from_json(item_data)
        title == Get(item_data.title)
        raised == FirstRaise(<<year, authors, venue, title>>)
    IN  IF ~ raised.ok THEN raised
        ELSE PublicationItem(year.val, title.val, url, authors.val, links,
                             venue.val, notes)

InvolvementItem_item_from_json(item_data, all_data, clock) ==
    LET venue == venue_from_json(item_data, all_data)
        raw_position == Get(item_data.position)
        position ==
            IF ~ raw_position.ok THEN raw_position
            ELSE IF raw_position.val \in DOMAIN all_data.abbrs.positions
            THEN Ok(all_data.abbrs.positions[raw_position.val])
            ELSE Raise("KeyError")
        date == Get(item_data.year)
        raised == FirstRaise(<<venue, position, date>>)
    IN  IF ~ raised.ok THEN raised
        ELSE InvolvementItem(venue.val, position.val, date.val)

PressItem_item_from_json(item_data, all_data, clock) ==
    LET date == date_from_json(item_data)
        source == source_from_json(item_data, all_data)
        title == Get(item_data.title)
        url == Get(item_data.url)
        type == Get(item_data.type)
        raised == FirstRaise(<<date, source, title, url, type>>)
    IN  IF ~ raised.ok THEN raised
        ELSE PressItem(date.val, title.val, url.val, source.val, type.val)

TalksItem_item_from_json(item_data, all_data, clock) ==
    LET year == year_of(item_data, clock)
        links == links_from_json(item_data)
        talk_type == talk_type_from_json(item_data, all_data)
        venue == venue_from_json(item_data, all_data)
        authors == authors_from_json(item_data, all_data)
        url == url_of(item_data)
        title == Get(item_data.title)
        raised == FirstRaise(<<year, talk_type, venue, authors, title>>)
    IN  IF ~ raised.ok THEN raised
        ELSE TalksItem(year.val, title.val, talk_type.val, url, links,
                       venue.val, authors.val)

WritingItem_item_from_json(item_data, all_data, clock) ==
    LET year == year_of(item_data, clock)
        links == links_from_json(item_data)
        url == url_of(item_data)
        venue ==
            IF IsNone(item_data.venue) THEN Ok(None)
            ELSE LET v == venue_from_json(item_data, all_data)
                 IN  IF v.ok THEN Ok(Some(v.val)) ELSE v
        authors == authors_from_json(item_data, all_data)
        title == Get(item_data.title)
        desc == Get(item_data.desc)
        raised == FirstRaise(<<year, venue, authors, title, desc>>)
    IN  IF ~ raised.ok THEN raised
        ELSE WritingItem(year.val, title.val, url, links, venue.val, desc.val,
                         authors.val)

CodeItem_item_from_json(item_data, all_data, clock) ==
    LET year == year_of(item_data, clock)
        links == links_from_json(item_data)
        url == url_of(item_data)
        title == Get(item_data.title)
        desc == Get(item_data.desc)
        raised == FirstRaise(<<year, title, desc>>)
    IN  IF ~ raised.ok THEN raised
        ELSE CodeItem(year.val, title.val, url, links, desc.val)

\* cls.item_from_json
item_from_json(class, item_data, all_data, clock) ==
    CASE class = "Blog" -> BlogItem_item_from_json(item_data, all_data, clock)
      [] class = "Publication" -> PublicationItem_item_from_json(item_data, all_data, clock)
      [] class = "Involvement" -> InvolvementItem_item_from_json(item_data, all_data, clock)
      [] class = "Press" -> PressItem_item_from_json(item_data, all_data, clock)
      [] class = "Talks" -> TalksItem_item_from_json(item_data, all_data, clock)
      [] class = "Writing" -> WritingItem_item_from_json(item_data, all_data, clock)
      [] OTHER -> CodeItem_item_from_json(item_data, all_data, clock)

\* The loop of list_from_json up to record n, ended by the first exception:
\* [ok, val (the list), err, at (the record that raised)].
RECURSIVE list_loop(_, _, _, _)
list_loop(class, all_data, clock, n) ==
    IF n = 0 THEN [ok |-> TRUE, val |-> <<>>, err |-> "none", at |-> 0]
    ELSE LET before == list_loop(class, all_data, clock, n - 1)
         IN  IF ~ before.ok THEN before
             ELSE LET r == item_from_json(class, all_data.items[n], all_data, clock)
                  IN  IF r.ok
                      THEN [before EXCEPT !.val = Append(before.val, r.val)]
                      ELSE [ok |-> FALSE, val |-> <<>>, err |-> r.err, at |-> n]

\* list_from_json with the exception of a record caught and the record
\* skipped.
RECURSIVE list_loop_skip(_, _, _, _)
list_loop_skip(class, all_data, clock, n) ==
    IF n = 0 THEN [ok |-> TRUE, val |-> <<>>, err |-> "none", at |-> 0]
    ELSE LET before == list_loop_skip(class, all_data, clock, n - 1)
             r == item_from_json(class, all_data.items[n], all_data, clock)
         IN  IF r.ok THEN [before EXCEPT !.val = Append(before.val, r.val)]
             ELSE before

list_from_json_skip(class, all_data, clock) ==
    list_loop_skip(class, all_data, clock, Len(all_data.items))

list_from_json(class, all_data, clock) ==
    list_loop(class, all_data, clock, Len(all_data.items))

Reverse(seq) == [i \in 1 .. Len(seq) |-> seq[Len(seq) + 1 - i]]

\* BaseItem.sort as sorted(items, key=...)[::-1]: an ascending sort, reversed.
sort_reversed(list) ==
    LET r == sorted(list, [i \in 1 .. Len(list) |-> list[i].date], FALSE)
    IN  IF r.ok THEN Ok(Reverse(r.val)) ELSE r

\* BaseItem.sort
sort(list) == sorted(list, [i \in 1 .. Len(list) |-> list[i].date], TRUE)

-----------------------------------------------------------------------------
(* The Indenter of .indent: add appends a line at the current level, up    *)
(* and down move the level; each returns the Indenter, so calls chain.     *)
(* A rendering function is the sequence of Indenter calls it makes.        *)

Line(tag, text, str, href, date) ==
    [tag |-> tag, text |-> text, str |-> str, href |-> href, date |-> date]
Tag(tag) == Line(tag, "", <<>>, <<>>, NoDate)

Add(line) == [op |-> "add", line |-> line]
Up == [op |-> "up", line |-> Tag("")]
Down == [op |-> "down", line |-> Tag("")]

Indenter_add(m, line) ==
    [m EXCEPT !.lines = Append(@, [indent |-> m.level, line |-> line])]
Indenter_up(m) == [m EXCEPT !.level = @ + 1]
Indenter_down(m) == [m EXCEPT !.level = @ - 1]

\* One call on the Indenter.
Step(m, o) ==
    CASE o.op = "add" -> Indenter_add(m, o.line)
      [] o.op = "up" -> Indenter_up(m)
      [] OTHER -> Indenter_down(m)

\* The calls of ops made in order on m: the first half, then the second half
\* on the Indenter the first half leaves (its level is an int).
RECURSIVE Run(_, _)
Run(ops, m) ==
    IF Len(ops) = 0 THEN m
    ELSE IF Len(ops) = 1 THEN Step(m, ops[1])
    ELSE LET h == Len(ops) \div 2
             half == Run(SubSeq(ops, 1, h), m)
         IN  IF half.level \in Int
             THEN Run(SubSeq(ops, h + 1, Len(ops)), half)
             ELSE half

\* One call on the Indenter, counted.
CallStep(st, o) ==
    LET m2 == Step(st.m, o)
    IN  [m |-> m2,
         c |-> [ups |-> st.c.ups + (IF o.op = "up" THEN 1 ELSE 0),
                downs |-> st.c.downs + (IF o.op = "down" THEN 1 ELSE 0),
                low |-> IF m2.level < st.c.low THEN m2.level ELSE st.c.low]]

RECURSIVE CallsFrom(_, _)
CallsFrom(ops, st) ==
    IF Len(ops) = 0 THEN st
    ELSE IF Len(ops) = 1 THEN CallStep(st, ops[1])
    ELSE LET h == Len(ops) \div 2
             half == CallsFrom(SubSeq(ops, 1, h), st)
         IN  IF half.c.low \in Int
             THEN CallsFrom(SubSeq(ops, h + 1, Len(ops)), half)
             ELSE half

\* The up() and down() calls of a rendering, and the lowest level it reaches.
Calls(ops, m, c) == CallsFrom(ops, [m |-> m, c |-> c]).c

\* The concatenation of a sequence of sequences.
RECURSIVE Flatten(_)
Flatten(ss) == IF Len(ss) = 0 THEN <<>> ELSE ss[1] \o Flatten(Tail(ss))

-----------------------------------------------------------------------------
(* The rendering functions.                                                *)

\* bool(x) of an optional str: None and "" are false.
Truthy(o) == ~ IsNone(o) /\ Len(o[1]) > 0
TruthyText(o) == ~ IsNone(o) /\ o[1] # ""

add_desc_html(desc) == <<Add(Line("span.description", desc, <<>>, <<>>, NoDate))>>

author_li(author) == Add(Line("li.author", "", author.title, <<>>, NoDate))

add_authors_html(authors) ==
    IF Len(authors) = 0 THEN <<>>
    ELSE <<Add(Tag("ol.authors")), Up>>
         \o [i \in 1 .. Len(authors) |-> author_li(authors[i])]
         \o <<Down, Add(Tag("/ol"))>>

add_coauthors_html(authors) ==
    LET non_me_authors == SelectSeq(authors, LAMBDA a : a.abbr # Some(AtMe))
    IN  IF Len(non_me_authors) = 0 THEN <<>>
        ELSE <<Add(Tag("div.co-authors-sec")), Up,
               Add(Tag("span.co-authors-desc")),
               Add(Tag("ol.authors.co-authors")), Up>>
             \o [i \in 1 .. Len(non_me_authors) |-> author_li(non_me_authors[i])]
             \o <<Down, Add(Tag("/ol")), Down, Add(Tag("/div"))>>

link_span(link) == Add(Line("span.pub-link", "", link.title, link.url, NoDate))

add_links_html(links) ==
    IF Len(links) = 0 THEN <<>>
    ELSE <<Add(Tag("span.pub-links")), Up>>
         \o [i \in 1 .. Len(links) |-> link_span(links[i])]
         \o <<Down, Add(Tag("/span"))>>

add_notes_and_links_html(notes, links) ==
    IF Len(links) = 0 /\ Len(notes) = 0 THEN <<>>
    ELSE <<Add(Tag("span.pub-links")), Up>>
         \o [i \in 1 .. Len(notes) |->
                Add(Line("note", notes[i].text, <<>>, <<>>, NoDate))]
         \o [i \in 1 .. Len(links) |-> link_span(links[i])]
         \o <<Down, Add(Tag("/span"))>>

title_html(item) ==
    IF Truthy(item.url)
    THEN Line("a.pub-title", item.title, <<>>, item.url[1], NoDate)
    ELSE Line("span.pub-title", item.title, <<>>, <<>>, NoDate)

date_html(item) == Line("time", "", <<>>, <<>>, item.date)

\* add_dest_html without its down().
add_dest_html_open(dest, list_item) ==
    <<Add(Tag("span.venue")), Up,
      Add(Line("dest", "", dest.title, <<>>, NoDate)),
      Add(date_html(list_item)),
      Add(Tag("/span"))>>

add_dest_html(dest, list_item) ==
    <<Add(Tag("span.venue")), Up,
      Add(Line("dest", "", dest.title, <<>>, NoDate)),
      Add(date_html(list_item)),
      Down, Add(Tag("/span"))>>

add_date_html(list_item) ==
    <<Add(Tag("span.venue")), Up, Add(date_html(list_item)), Down, Add(Tag("/span"))>>

BlogItem_add_html(item, prior_item) ==
    <<Add(Tag("li")), Up, Add(title_html(item))>>
    \o add_coauthors_html(item.authors)
    \o add_dest_html(item.source[1], item)
    \o (IF TruthyText(item.desc) THEN add_desc_html(item.desc[1]) ELSE <<>>)
    \o <<Down, Add(Tag("/li"))>>

PublicationItem_add_html(item, prior_item) ==
    <<Add(Tag("li")), Up, Add(title_html(item))>>
    \o add_authors_html(item.authors)
    \o add_dest_html(item.venue[1], item)
    \o add_notes_and_links_html(item.notes, item.links)
    \o <<Down, Add(Tag("/li"))>>

\* InvolvementItem.add_html with the comparison of the years lost: a header
\* for the first item only.
InvolvementItem_add_html_first(item, prior_item) ==
    (IF IsNone(prior_item)
     THEN <<Add(Tag("tr")), Up,
            Add(Line("th.year", "", <<>>, <<>>, item.date)),
            Down, Add(Tag("/tr"))>>
     ELSE <<>>)
    \o <<Add(Tag("tr")), Up,
         Add(Line("td.venue", "", item.venue[1].title, <<>>, NoDate)),
         Add(Line("td.position", item.position, <<>>, <<>>, NoDate)),
         Down, Add(Tag("/tr"))>>

InvolvementItem_add_html(item, prior_item) ==
    (IF IsNone(prior_item) \/ item.date # prior_item[1].date
     THEN <<Add(Tag("tr")), Up,
            Add(Line("th.year", "", <<>>, <<>>, item.date)),
            Down, Add(Tag("/tr"))>>
     ELSE <<>>)
    \o <<Add(Tag("tr")), Up,
         Add(Line("td.venue", "", item.venue[1].title, <<>>, NoDate)),
         Add(Line("td.position", item.position, <<>>, <<>>, NoDate)),
         Down, Add(Tag("/tr"))>>

PressItem_add_type_markup(item) ==
    <<Add(Tag("span.press-type")), Up,
      Add(Line("span.label", ITEM_TYPE_CLASSES[item.type], <<>>, <<>>, NoDate)),
      Down, Add(Tag("/span"))>>

PressItem_add_html(item, prior_item) ==
    <<Add(Tag("li")), Up, Add(title_html(item))>>
    \o PressItem_add_type_markup(item)
    \o add_dest_html(item.source[1], item)
    \o <<Down, Add(Tag("/li"))>>

TalksItem_add_html(item, prior_item) ==
    <<Add(Tag("li")), Up, Add(title_html(item))>>
    \o (IF Len(item.authors) > 0 THEN add_authors_html(item.authors) ELSE <<>>)
    \o add_dest_html(item.venue[1], item)
    \o <<Add(Line("talk-type", "", item.talktype[1].label, <<>>, NoDate))>>
    \o add_links_html(item.links)
    \o <<Down, Add(Tag("/li"))>>

WritingItem_add_html(item, prior_item) ==
    <<Add(Tag("li")), Up, Add(title_html(item))>>
    \o add_authors_html(item.authors)
    \o (IF ~ IsNone(item.venue) THEN add_dest_html(item.venue[1], item)
        ELSE add_date_html(item))
    \o add_links_html(item.links)
    \o add_desc_html(item.desc[1])
    \o <<Down, Add(Tag("/li"))>>

CodeItem_add_html(item, prior_item) ==
    <<Add(Tag("li")), Up, Add(title_html(item))>>
    \o add_date_html(item)
    \o add_links_html(item.links)
    \o add_desc_html(item.desc[1])
    \o <<Down, Add(Tag("/li"))>>

\* item.add_html(markup, prior_item)
add_html(item, prior_item) ==
    CASE item.cls = "Blog" -> BlogItem_add_html(item, prior_item)
      [] item.cls = "Publication" -> PublicationItem_add_html(item, prior_item)
      [] item.cls = "Involvement" -> InvolvementItem_add_html(item, prior_item)
      [] item.cls = "Press" -> PressItem_add_html(item, prior_item)
      [] item.cls = "Talks" -> TalksItem_add_html(item, prior_item)
      [] item.cls = "Writing" -> WritingItem_add_html(item, prior_item)
      [] OTHER -> CodeItem_add_html(item, prior_item)

html_classes(class) ==
    CASE class = "Blog" -> <<"publications", "publications-blog">>
      [] class = "Press" -> <<"publications", "publications-press">>
      [] class = "Talks" -> <<"publications", "publications-talks">>
      [] class = "Writing" -> <<"publications", "publications-other-writing">>
      [] class = "Involvement" -> <<>>
      [] OTHER -> <<"publications">>

\* The loop over reversed(items).
items_loop_reversed(list) ==
    Flatten([i \in 1 .. Len(list) |->
                add_html(list[Len(list) + 1 - i],
                         IF i = 1 THEN None ELSE Some(list[Len(list) + 2 - i]))])

\* The loop "for item in items: item.add_html(markup, prior_item); prior_item = item".
items_loop(list) ==
    Flatten([i \in 1 .. Len(list) |->
                add_html(list[i], IF i = 1 THEN None ELSE Some(list[i - 1]))])

BaseItem_add_list_html(class, list) ==
    <<Add(Line("ul", "", html_classes(class), <<>>, NoDate)), Up>>
    \o items_loop(list)
    \o <<Down, Add(Tag("/ul"))>>

InvolvementItem_add_list_html(class, list) == items_loop(list)

\* cls.add_list_html(items, markup)
add_list_html(class, list) ==
    IF class = "Involvement" THEN InvolvementItem_add_list_html(class, list)
    ELSE BaseItem_add_list_html(class, list)

-----------------------------------------------------------------------------
(* Validation.                                                             *)

\* "//" in ref
HasDoubleSlash(ref) == \E i \in 1 .. Len(ref) - 1 : ref[i] = "/" /\ ref[i + 1] = "/"

is_local_file_ref(ref) ==
    IF ~ Truthy(ref) THEN FALSE
    ELSE IF HasDoubleSlash(ref[1]) THEN FALSE
    ELSE TRUE

file_fields(class) ==
    CASE class \in {"Blog", "Press"} -> <<"url">>
      [] class \in {"Publication", "Talks", "Writing"} -> <<"url", "links">>
      [] class = "Code" -> <<"links">>
      [] OTHER -> <<>>

\* The values one file field adds to possible_files.
field_files(item, file_field_name) ==
    IF file_field_name = "url" THEN <<item.url>>
    ELSE [i \in 1 .. Len(item.links) |-> Some(item.links[i].url)]

possible_files(item) ==
    Flatten([k \in 1 .. Len(file_fields(item.cls)) |->
                field_files(item, file_fields(item.cls)[k])])

\* item.validate(root_dir), files being the files that exist under root_dir
validate(item, files) ==
    LET refs == possible_files(item)
    IN  IF \E i \in 1 .. Len(refs) :
               is_local_file_ref(refs[i]) /\ refs[i][1] \notin files
        THEN Raise("FileNotFoundError")
        ELSE Ok(TRUE)

-----------------------------------------------------------------------------
(* The operations.                                                         *)

Files == {LocalA, LocalB}
NoCalls(level) == [ups |-> 0, downs |-> 0, low |-> level]

\* items = cls.list_from_json(data)
ListFromJson ==
    /\ pc = "load"
    /\ LET r == list_from_json(cls, data, now)
       IN  /\ pc' = IF r.ok THEN "built" ELSE "failed"
           /\ items' = r.val
           /\ err' = r.err
           /\ errIndex' = r.at
    /\ UNCHANGED <<cls, data, now, root, valid, checked, sortedItems, listArg,
                   startLevel, markup, calls>>

\* items[i].validate(root_dir)
Validate ==
    /\ pc = "built"
    /\ \E i \in 1 .. Len(items), files \in SUBSET Files :
          LET r == validate(items[i], files)
          IN  /\ root' = files
              /\ checked' = i
              /\ valid' = IF r.ok THEN "True" ELSE r.err
              /\ err' = r.err
    /\ pc' = "validated"
    /\ UNCHANGED <<cls, data, now, items, errIndex, sortedItems, listArg,
                   startLevel, markup, calls>>

\* sortedItems = BaseItem.sort(items)
Sort ==
    /\ pc = "built"
    /\ LET r == sort(items)
       IN  /\ pc' = IF r.ok THEN "sorted" ELSE "sort_failed"
           /\ sortedItems' = r.val
           /\ err' = r.err
    /\ UNCHANGED <<cls, data, now, root, items, errIndex, valid, checked,
                   listArg, startLevel, markup, calls>>

\* cls.add_list_html(list, markup), on the list as built or as sorted
AddListHtml ==
    /\ pc \in {"built", "sorted"}
    /\ LET list == IF pc = "built" THEN items ELSE sortedItems
           ops == add_list_html(cls, list)
       IN  /\ listArg' = list
           /\ markup' = Run(ops, markup)
           /\ calls' = Calls(ops, markup, NoCalls(markup.level))
    /\ pc' = IF pc = "built" THEN "rendered" ELSE "rendered_sorted"
    /\ UNCHANGED <<cls, data, now, root, items, err, errIndex, valid, checked,
                   sortedItems, startLevel>>

\* items[i].add_html(markup, prior_item), prior_item being None or an item
AddHtml ==
    /\ pc = "built"
    /\ \E i \in 1 .. Len(items),
          prior \in {None} \cup {Some(items[j]) : j \in 1 .. Len(items)} :
          LET ops == add_html(items[i], prior)
          IN  /\ listArg' = <<items[i]>>
              /\ markup' = Run(ops, markup)
              /\ calls' = Calls(ops, markup, NoCalls(markup.level))
    /\ pc' = "rendered_item"
    /\ UNCHANGED <<cls, data, now, root, items, err, errIndex, valid, checked,
                   sortedItems, startLevel>>

Next == ListFromJson \/ Validate \/ Sort \/ AddListHtml \/ AddHtml

-----------------------------------------------------------------------------
(* The documents.  Each specification draws the document from one family   *)
(* of item records, which varies the keys its name says and keeps the      *)
(* other keys at the values of a well-formed record.                       *)

Variants == {"Blog", "Publication", "Involvement", "Press", "Talks", "Writing", "Code"}
YearVariants == {"Publication", "Talks", "Writing", "Code", "Involvement"}
LinkVariants == {"Publication", "Talks", "Writing", "Code"}

SeqsUpTo(S, n) == UNION {[1 .. k -> S] : k \in 0 .. n}

\* A well-formed record of each variant.
BaseRec(class) ==
    CASE class = "Blog" ->
           Rec(Some("t1"), None, Some("2020-03-01"), None, None, Some(AtBlog),
               None, None, None, None, Some(Remote), None)
      [] class = "Press" ->
           Rec(Some("t1"), None, Some("2020-03-01"), None, None, Some(AtBlog),
               Some("news"), None, None, None, Some(Remote), None)
      [] class = "Publication" ->
           Rec(Some("t1"), Some(IntV(FirstYear)), None, None, Some(AtUsenix), None,
               None, None, None, None, None, None)
      [] class = "Talks" ->
           Rec(Some("t1"), Some(IntV(FirstYear)), None, None, Some(AtUsenix), None,
               Some(AtConf), None, None, None, None, None)
      [] class = "Involvement" ->
           Rec(None, Some(IntV(FirstYear)), None, None, Some(AtUsenix), None,
               None, Some(AtPc), None, None, None, None)
      [] OTHER ->   \* Writing, Code
           Rec(Some("t1"), Some(IntV(FirstYear)), None, None, None, None,
               None, None, None, None, None, Some("d"))

HasYear(class) == class \in YearVariants
HasDate(class) == class \in {"Blog", "Press"}
HasAuthors(class) == class \in {"Blog", "Publication", "Talks", "Writing"}
HasVenue(class) == class \in {"Publication", "Talks", "Writing", "Involvement"}
HasSource(class) == class \in {"Blog", "Press"}
HasLinks(class) == class \in LinkVariants
OptionalUrl(class) == class \in LinkVariants

\* The values a key takes: those of opts if the variant reads the key.
Opts(reads, opts, base) == IF reads THEN opts ELSE {base}

\* References: literal, resolvable and unresolvable authors, venues, sources,
\* types and positions, with a valid or an invalid year or date.
RefsRecs(class) ==
    LET b == BaseRec(class)
    IN  {[b EXCEPT !.year = y, !.date = d, !.authors = a, !.venue = v,
                   !.source = s, !.type = t, !.position = p] :
            y \in Opts(HasYear(class), {Some(IntV(FirstYear)), Some(StrV(Str2020))}, b.year),
            d \in Opts(HasDate(class), {Some("2020-03-01"), Some("yesterday")}, b.date),
            a \in Opts(HasAuthors(class),
                       {None, Some(<<Jane, AtMe>>), Some(<<AtGhost>>)}, b.authors),
            v \in Opts(HasVenue(class),
                       {Some(Www), Some(AtUsenix), Some(AtGhost)}
                           \cup (IF class = "Writing" THEN {None} ELSE {}), b.venue),
            s \in Opts(HasSource(class), {Some(AtBlog), Some(Cnn), Some(AtGhost)}, b.source),
            t \in Opts(class \in {"Press", "Talks"},
                       IF class = "Press"
                       THEN {Some("news"), Some("podcast"), Some("radio"),
                             Some("video"), Some("blog")}
                       ELSE {Some(Tutorial), Some(AtConf), Some(AtGhost)}, b.type),
            p \in Opts(class = "Involvement", {Some(AtPc), Some(AtGhost)}, b.position)}

\* Years: int years, "@now" and another string.
YearRecs(class) ==
    LET b == BaseRec(class)
    IN  {[b EXCEPT !.year = Some(y)] :
            y \in {IntV(n) : n \in Years} \cup {StrV(AtNow), StrV(Str2020)}}

OneLink == <<[title |-> <<"A">>, url |-> Remote]>>

\* Shapes: the optional parts of an item present or absent.
ShapeRecs(class) ==
    LET b == BaseRec(class)
    IN  {[b EXCEPT !.year = y, !.url = u, !.authors = a, !.links = l, !.notes = n,
                   !.venue = v, !.desc = d, !.type = t] :
            y \in Opts(class = "Involvement", {Some(IntV(n)) : n \in Years}, b.year),
            u \in Opts(OptionalUrl(class), {None, Some(LocalA)}, b.url),
            a \in Opts(HasAuthors(class),
                       IF class = "Blog"
                       THEN {None, Some(<<AtMe>>), Some(<<AtMe, Jane>>)}
                       ELSE {None, Some(<<Jane>>)}, b.authors),
            l \in Opts(HasLinks(class), {None, Some(OneLink)}, b.links),
            n \in Opts(class = "Publication", {None, Some(<<"n">>)}, b.notes),
            v \in Opts(class = "Writing", {None, Some(Www)}, b.venue),
            d \in Opts(class = "Blog", {None, Some(""), Some("d")}, b.desc),
            t \in Opts(class = "Press", {Some(k) : k \in DOMAIN ITEM_TYPE_CLASSES}, b.type)}

\* Orders: items told apart by title (by position for Involvement), with
\* few dates, so that lists hold ties and inversions.
OrderRecs(class) ==
    LET b == BaseRec(class)
    IN  {[b EXCEPT !.title = t, !.position = p, !.year = y, !.date = d] :
            t \in Opts(class # "Involvement", {Some("t1"), Some("t2")}, b.title),
            p \in Opts(class = "Involvement", {Some(AtPc), Some(AtChair)}, b.position),
            y \in Opts(HasYear(class),
                       {Some(IntV(n)) : n \in Years}
                           \cup (IF class = "Involvement" THEN {Some(StrV(AtNow))} ELSE {}),
                       b.year),
            d \in Opts(HasDate(class),
                       {Some("2020-03-01"), Some("2020-03-15"), Some("2021-01-02")},
                       b.date)}

\* Files: local, remote, empty and absent URLs and link targets.
FilesRecs(class) ==
    LET b == BaseRec(class)
    IN  {[b EXCEPT !.url = u, !.links = l] :
            u \in IF OptionalUrl(class)
                  THEN {None, Some(Empty), Some(LocalA), Some(Remote)}
                  ELSE IF class = "Involvement" THEN {None}
                  ELSE {Some(Empty), Some(LocalA), Some(Remote)},
            l \in Opts(HasLinks(class),
                       {None,
                        Some(<<[title |-> <<"A">>, url |-> LocalB]>>),
                        Some(<<[title |-> <<"A">>, url |-> Remote]>>),
                        Some(<<[title |-> <<"B">>, url |-> Remote],
                               [title |-> <<"A">>, url |-> LocalB]>>)},
                       b.links)}

\* Links: a mapping's entries in every insertion order (its keys are distinct).
LinkMaps ==
    {[i \in 1 .. Len(ts) |-> [title |-> ts[i], url |-> Remote]] :
        ts \in {s \in SeqsUpTo(LinkTitles, MaxLinks) :
                   \A i, j \in 1 .. Len(s) : i # j => s[i] # s[j]}}

LinksRecs(class) ==
    LET b == BaseRec(class)
    IN  {[b EXCEPT !.links = l] : l \in {None} \cup {Some(m) : m \in LinkMaps}}

\* The state before list_from_json is called.
\* The records of a family.
RecsOf(family, class) ==
    CASE family = "refs" -> RefsRecs(class)
      [] family = "year" -> YearRecs(class)
      [] family = "shape" -> ShapeRecs(class)
      [] family = "order" -> OrderRecs(class)
      [] family = "files" -> FilesRecs(class)
      [] OTHER -> LinksRecs(class)

InitWith(family, classes, n, clocks, levels) ==
    /\ cls \in classes
    /\ data \in {[abbrs |-> Abbrs, items |-> d] : d \in SeqsUpTo(RecsOf(family, cls), n)}
    /\ now \in clocks
    /\ startLevel \in levels
    /\ markup = [level |-> startLevel, lines |-> <<>>]
    /\ calls = NoCalls(startLevel)
    /\ pc = "load"
    /\ items = <<>>
    /\ err = "none"
    /\ errIndex = 0
    /\ root = {}
    /\ valid = "none"
    /\ checked = 0
    /\ sortedItems = <<>>
    /\ listArg = <<>>

Clock == FirstYear + NumYears

InitRefs == InitWith("refs", Variants, RefsItems, {Clock}, {0})
InitYear == InitWith("year", YearVariants, YearItems, {Clock - 1, Clock}, {0})
InitShape == InitWith("shape", Variants, ShapeItems, {Clock}, 0 .. MaxLevel)
InitOrder == InitWith("order", Variants, OrderItems, {Clock}, {0})
InitFiles == InitWith("files", Variants, FilesItems, {Clock}, {0})
InitLinks == InitWith("links", LinkVariants, LinksItems, {Clock}, {0})

SpecRefs == InitRefs /\ [][Next]_vars
SpecYear == InitYear /\ [][Next]_vars
SpecShape == InitShape /\ [][Next]_vars
SpecOrder == InitOrder /\ [][Next]_vars
SpecFiles == InitFiles /\ [][Next]_vars
SpecLinks == InitLinks /\ [][Next]_vars

Init == InitRefs \/ InitYear \/ InitShape \/ InitOrder \/ InitFiles \/ InitLinks
Spec == Init /\ [][Next]_vars

-----------------------------------------------------------------------------
(* What the properties read off the state.                                 *)

Built == pc \notin {"load", "failed"}
Failed == pc = "failed"
RenderedList == pc \in {"rendered", "rendered_sorted"}
Rendered == RenderedList \/ pc = "rendered_item"
Records == data.items
N == Len(data.items)

NonIncreasing(dates) ==
    \A i \in 1 .. Len(dates) - 1 :
        Comparable(dates[i], dates[i + 1]) /\ ~ KeyLt(dates[i], dates[i + 1])

DatesOfItems(list) == [i \in 1 .. Len(list) |-> list[i].date]

\* The date each rendered item shows, in buffer order: its <time>, or for an
\* Involvement row the year header it stands under.
RECURSIVE DatesOf(_, _)
DatesOf(lines, cur) ==
    IF Len(lines) = 0 THEN <<>>
    ELSE LET l == lines[1].line
         IN  CASE l.tag = "time" -> <<l.date>> \o DatesOf(Tail(lines), cur)
               [] l.tag = "th.year" -> DatesOf(Tail(lines), l.date)
               [] l.tag = "td.venue" -> <<cur>> \o DatesOf(Tail(lines), cur)
               [] OTHER -> DatesOf(Tail(lines), cur)

\* What tells the rendered items apart, in buffer order: the title, or the
\* position of an Involvement row.
TextsOf(lines) ==
    LET own == SelectSeq(lines, LAMBDA x :
                   x.line.tag \in {"a.pub-title", "span.pub-title", "td.position"})
    IN  [i \in 1 .. Len(own) |-> own[i].line.text]

TextsOfItems(list) ==
    [i \in 1 .. Len(list) |->
        IF list[i].cls = "Involvement" THEN list[i].position ELSE list[i].title]

\* C1 as stated: add_list_html emits the items in descending date order,
\* whatever the order of the list it is given.
C1_Original == RenderedList => NonIncreasing(DatesOf(markup.lines, NoDate))

\* C1 (amended): add_list_html emits the items in the order of the list it
\* is given; the output is in descending date order when that list is the
\* result of BaseItem.sort.
C1_InputOrder ==
    RenderedList =>
        /\ listArg = (IF pc = "rendered" THEN items ELSE sortedItems)
        /\ DatesOf(markup.lines, NoDate) = DatesOfItems(listArg)
        /\ TextsOf(markup.lines) = TextsOfItems(listArg)
        /\ pc = "rendered_sorted" => NonIncreasing(DatesOf(markup.lines, NoDate))

C1_Witness ==
    /\ pc = "rendered_sorted"
    /\ Len(listArg) >= 3
    /\ sortedItems # items
    /\ \E i \in 1 .. Len(listArg) - 1 : KeyLt(listArg[i + 1].date, listArg[i].date)

\* C2: rendering an item, or a list, leaves the buffer at the indentation
\* level it started at, calls up() as often as down(), and never goes below
\* the starting level.
C2_Balanced ==
    Rendered =>
        /\ markup.level = startLevel
        /\ calls.ups = calls.downs
        /\ calls.low >= startLevel

C2_Witness ==
    /\ pc = "rendered_item"
    /\ startLevel > 0
    /\ cls = "Publication"
    /\ calls.ups = 4
    /\ Len(listArg[1].notes) > 0

\* The lines of the buffer that are rows of an Involvement item (its venue
\* cell), by position in the buffer.
VenueRows == {p \in 1 .. Len(markup.lines) : markup.lines[p].line.tag = "td.venue"}
RowOf(i) == CHOOSE p \in VenueRows : Cardinality({q \in VenueRows : q < p}) = i - 1
HeaderRows(year) ==
    {p \in 1 .. Len(markup.lines) :
        markup.lines[p].line.tag = "th.year" /\ markup.lines[p].line.date = year}

\* A year header row (<tr>, <th>, </tr>) ends right before the row at p.
HeaderBefore(p, year) ==
    /\ p >= 5
    /\ markup.lines[p - 4].line.tag = "tr"
    /\ markup.lines[p - 3].line.tag = "th.year"
    /\ markup.lines[p - 3].line.date = year
    /\ markup.lines[p - 2].line.tag = "/tr"

\* C3: in a rendered Involvement list a year header is emitted right before
\* an item's row iff the item is the first or its year differs from the
\* year of the item before it; in a list sorted by year every year has
\* exactly one header, and its items follow it.
C3_Headers ==
    (RenderedList /\ cls = "Involvement") =>
        /\ Cardinality(VenueRows) = Len(listArg)
        /\ \A i \in 1 .. Len(listArg) :
              HeaderBefore(RowOf(i), listArg[i].date)
                  <=> (i = 1 \/ listArg[i].date # listArg[i - 1].date)
        /\ pc = "rendered_sorted" =>
              /\ \A i \in 1 .. Len(listArg) :
                    Cardinality(HeaderRows(listArg[i].date)) = 1
              /\ DatesOf(markup.lines, NoDate) = DatesOfItems(listArg)

C3_Witness ==
    /\ pc = "rendered_sorted"
    /\ cls = "Involvement"
    /\ Len(listArg) = 3
    /\ listArg[1].date = listArg[2].date
    /\ listArg[2].date # listArg[3].date
    /\ items # sortedItems

-----------------------------------------------------------------------------
(* Construction.                                                           *)

IsToken(str) == Len(str) > 0 /\ str[1] = "@"
Unresolved(field, table) ==
    ~ IsNone(field) /\ IsToken(field[1]) /\ field[1] \notin DOMAIN table

\* The record holds an @-prefixed reference, in a key its variant reads,
\* that the abbrs tables do not define.
HasUnresolvedRef(class, rec) ==
    \/ /\ HasAuthors(class)
       /\ ~ IsNone(rec.authors)
       /\ \E i \in 1 .. Len(rec.authors[1]) :
             Unresolved(Some(rec.authors[1][i]), data.abbrs.authors)
    \/ HasVenue(class) /\ Unresolved(rec.venue, data.abbrs.venues)
    \/ HasSource(class) /\ Unresolved(rec.source, data.abbrs.sources)
    \/ class = "Talks" /\ Unresolved(rec.type, data.abbrs.types)
    \/ class = "Involvement" /\ Unresolved(rec.position, data.abbrs.positions)

\* The year or date of the record is one the variant's item_from_json accepts.
DateAccepted(class, rec) ==
    /\ (HasDate(class) => date_from_json(rec).ok)
    /\ (HasYear(class) /\ class # "Involvement" => year_of(rec, now).ok)

BadPressType(rec) == rec.type[1] \notin {"news", "podcast", "radio", "video"}

\* The talk types the document defines (abbrs.types): items.py itself names
\* no enumeration of talk types.
TalkTypeLabels == {data.abbrs.types[k].label : k \in DOMAIN data.abbrs.types}

\* C4 as stated: no Press or Talk item exists whose type is outside the
\* variant's enumeration.
C4_Original ==
    Built =>
        \A i \in 1 .. Len(items) :
            /\ cls = "Press" => items[i].type \in {"news", "podcast", "radio", "video"}
            /\ cls = "Talks" => items[i].talktype[1].label \in TalkTypeLabels

\* C4 (amended): a Press record whose type is not news, podcast, radio or
\* video never constructs: list construction fails, with ValueError from
\* PressItem.__init__ when the record's date and source resolve, so no
\* Press item with another type exists.  A Talk type is checked against no
\* enumeration: a literal type is wrapped into the TalkType as it is.
C4_PressType ==
    /\ (cls = "Press" /\ Built) =>
          \A i \in 1 .. Len(items) :
              items[i].type \in {"news", "podcast", "radio", "video"}
    /\ (cls = "Press" /\ pc # "load") =>
          \A i \in 1 .. N :
              BadPressType(Records[i]) =>
                  /\ Failed /\ items = <<>> /\ errIndex <= i
                  /\ (errIndex = i /\ date_from_json(Records[i]).ok
                        /\ source_from_json(Records[i], data).ok)
                         => err = "ValueError"
    /\ (cls = "Talks" /\ Built) =>
          \A i \in 1 .. Len(items) :
              ~ IsToken(Records[i].type[1]) =>
                  items[i].talktype = Some(TalkType(Records[i].type[1], None))

C4_Witness ==
    /\ cls = "Press" /\ Failed /\ err = "ValueError" /\ errIndex = 2
    /\ BadPressType(Records[2])
    /\ date_from_json(Records[2]).ok

\* C5 as stated: with an unresolved reference in some record, list
\* construction fails with a Lookup Error at the first such record and
\* returns no items.
C5_Original ==
    pc # "load" =>
        \A k \in 1 .. N :
            (/\ HasUnresolvedRef(cls, Records[k])
             /\ \A j \in 1 .. k - 1 : ~ HasUnresolvedRef(cls, Records[j]))
                => Failed /\ items = <<>> /\ errIndex = k /\ err = "KeyError"

\* C5 (amended): with an unresolved reference in some record, list
\* construction fails and returns no items at all (no skip, no partial
\* list); it fails at the first such record unless an earlier record is
\* itself invalid, and there with a Lookup Error unless the record's year
\* or date is invalid, which is detected first.
C5_NoPartialList ==
    pc # "load" =>
        \A k \in 1 .. N :
            (/\ HasUnresolvedRef(cls, Records[k])
             /\ \A j \in 1 .. k - 1 : ~ HasUnresolvedRef(cls, Records[j]))
                => /\ Failed /\ items = <<>> /\ sortedItems = <<>> /\ listArg = <<>>
                   /\ errIndex \in 1 .. k
                   /\ errIndex < k => ~ item_from_json(cls, Records[errIndex], data, now).ok
                   /\ (errIndex = k /\ DateAccepted(cls, Records[k])) => err = "KeyError"

C5_Witness ==
    /\ Failed /\ err = "KeyError" /\ errIndex = 2 /\ items = <<>>
    /\ HasUnresolvedRef(cls, Records[2])
    /\ ~ HasUnresolvedRef(cls, Records[1])

LiteralAuthors(rec) ==
    IF IsNone(rec.authors) THEN {}
    ELSE {i \in 1 .. Len(rec.authors[1]) : ~ IsToken(rec.authors[1][i])}

\* Literal authors and venues become the record's title, with no abbreviation.
LiteralsKept ==
    Built =>
        \A i \in 1 .. Len(items) :
            /\ \A a \in LiteralAuthors(Records[i]) :
                  items[i].authors[a] = Author(Records[i].authors[1][a], None)
            /\ (HasVenue(cls) /\ ~ IsNone(Records[i].venue)
                  /\ ~ IsToken(Records[i].venue[1]))
                   => items[i].venue = Some(Venue(Records[i].venue[1], None, None))

\* C7 as stated: a literal author, venue or source becomes the record's
\* title, and no literal is looked up in abbrs: a lookup fails only on an
\* unresolved @-reference.
C7_Original ==
    /\ LiteralsKept
    /\ Built =>
          \A i \in 1 .. Len(items) :
              (HasSource(cls) /\ ~ IsToken(Records[i].source[1]))
                  => items[i].source[1].title = Records[i].source[1]
    /\ (Failed /\ err = "KeyError") => HasUnresolvedRef(cls, Records[errIndex])

\* C7 (amended): a literal author or venue becomes the record's title, with
\* no lookup in abbrs.  A source has no literal form: source_from_json looks
\* every source up in abbrs.sources, so a source of an item is a table entry
\* and a literal source outside the table fails with a Lookup Error.
C7_LiteralAuthorVenue ==
    /\ LiteralsKept
    /\ Built =>
          \A i \in 1 .. Len(items) :
              HasSource(cls) =>
                  /\ Records[i].source[1] \in DOMAIN data.abbrs.sources
                  /\ items[i].source[1].title
                        = data.abbrs.sources[Records[i].source[1]].title
                  /\ items[i].source[1].abbr = Records[i].source
    /\ (Failed /\ err = "KeyError" /\ ~ HasUnresolvedRef(cls, Records[errIndex]))
          => /\ HasSource(cls)
             /\ ~ IsToken(Records[errIndex].source[1])
             /\ Records[errIndex].source[1] \notin DOMAIN data.abbrs.sources

C7_Witness ==
    /\ pc = "built" /\ cls = "Publication" /\ Len(items) = 2
    /\ Records[2].venue = Some(Www)
    /\ items[2].venue[1].title = Www
    /\ Records[2].authors = Some(<<Jane, AtMe>>)
    /\ items[2].authors[1].title = Jane

\* C8: a constructed item of a variant with a year carries an int: a
\* literal int is kept, "@now" becomes the year of the clock, and a record
\* with any other string fails construction with the invalid-year error.
C8_Claim ==
    /\ Built =>
          \A i \in 1 .. Len(items) :
              /\ items[i].date.kind = "int"
              /\ Records[i].year[1].kind = "int" => items[i].date = Records[i].year[1]
              /\ Records[i].year[1] = StrV(AtNow) => items[i].date = IntV(now)
    /\ pc # "load" =>
          \A i \in 1 .. N :
              (Records[i].year[1].kind = "str" /\ Records[i].year[1].s # AtNow)
                  => Failed /\ err = "BaseException" /\ errIndex <= i

\* C6: validate fails with Missing File iff some URL or link target the item
\* holds is non-empty, has no "//" and is no file under root, and returns
\* True otherwise.
HeldRefs(item) ==
    (IF IsNone(item.url) THEN {} ELSE {item.url[1]})
        \cup {item.links[i].url : i \in 1 .. Len(item.links)}

C6_Claim ==
    pc = "validated" =>
        LET missing == \E ref \in HeldRefs(items[checked]) :
                           /\ Len(ref) > 0
                           /\ ~ HasDoubleSlash(ref)
                           /\ ref \notin root
        IN  /\ missing => valid = "FileNotFoundError"
            /\ ~ missing => valid = "True"

\* C9: the links of an item are the entries of the record's links mapping,
\* one Link each, in ascending order of title, and none when the key is
\* absent; they are rendered in that order.
LinkLines ==
    LET own == SelectSeq(markup.lines, LAMBDA x : x.line.tag = "span.pub-link")
    IN  [i \in 1 .. Len(own) |-> Link(own[i].line.str, own[i].line.href)]

C9_Links ==
    /\ Built =>
          \A i \in 1 .. Len(items) :
              LET links == items[i].links
                  raw == Records[i].links
              IN  /\ IsNone(raw) => links = <<>>
                  /\ ~ IsNone(raw) =>
                        /\ Len(links) = Len(raw[1])
                        /\ {links[k] : k \in 1 .. Len(links)}
                              = {Link(raw[1][k].title, raw[1][k].url) :
                                    k \in 1 .. Len(raw[1])}
                        /\ \A k \in 1 .. Len(links) - 1 :
                              StrLt(links[k].title, links[k + 1].title)
    /\ Rendered =>
          LinkLines = Flatten([i \in 1 .. Len(listArg) |-> listArg[i].links])

C9_Witness ==
    /\ pc = "rendered" /\ Len(items) = 1
    /\ Len(items[1].links) = MaxLinks
    /\ Records[1].links[1][1].title = <<"B">>
    /\ Records[1].links[1][2].title = <<"A", "B">>
    /\ Len(LinkLines) = MaxLinks

====
